---- MODULE Spec2Model ----
(***************************************************************************)
(* A model of src/to_shp.py: a script that loads a shapefile into a        *)
(* GeoDataFrame, renames ten columns whose names hold umlauts, writes the  *)
(* frame to a second shapefile and prints the resulting column list.       *)
(*                                                                         *)
(* The script is one straight-line module body.  Each statement is one     *)
(* action, `pc' names the statement about to run.  The two library calls   *)
(* that touch the file system (gpd.read_file, gdf.to_file) either return   *)
(* or raise; an exception is not caught anywhere in the script, so it ends *)
(* the run.                                                                *)
(*                                                                         *)
(* A frame is a record [columns, rows]: `columns' is the sequence of       *)
(* column names (the geometry column among them), `rows' the sequence of   *)
(* records, each a sequence of cell values aligned with `columns'.         *)
(***************************************************************************)
EXTENDS Integers, Sequences, FiniteSets, TLC

VARIABLES
    inputFile,   \* what is on disk at updated_path
    gdf,         \* the Python variable gdf
    outFile,     \* what is on disk at cleaned_path
    console,     \* the lines printed so far
    i,           \* the index variable of the for loop of line 32
    pc,          \* the statement about to run, or how the run ended
    steps        \* history: the steps begun so far, in order

vars == <<inputFile, gdf, outFile, console, i, pc, steps>>

----------------------------------------------------------------------------
(* Bounds of the model *)

\* longest column list drawn from ScenarioNames
MaxCols == 4

\* longest column list drawn from the whole name universe
MaxWideCols == 2

\* largest number of records in the input
MaxRecs == 2

----------------------------------------------------------------------------
(* Program constants *)

cleaned_path ==
    "C:\\Users\\User\\OneDrive\\Desktop\\Upwork\\co2-storage-atlas\\Shapefiles\\updated_commune_cleaned.shp"

\* a typo in one clean name
rename_map_typo ==
    ("SPÖ_votes" :> "SPO_votes") @@ ("SPÖ_perce" :> "SPO_perc") @@
    ("ÖVP_votes" :> "OVP_votes") @@ ("ÖVP_perce" :> "OEVP_perc") @@
    ("FPÖ_votes" :> "FPOE_votes") @@ ("FPÖ_perce" :> "FPOE_perc") @@
    ("GRÜNE_vot" :> "GRUENE_votes") @@ ("GRÜNE_per" :> "GRUENE_perc") @@
    ("KPÖ_votes" :> "KPOE_votes") @@ ("KPÖ_perce" :> "KPOE_perc")

\* a copy-paste slip: one clean name is another entry's old name
rename_map_chained ==
    ("SPÖ_votes" :> "SPO_votes") @@ ("SPÖ_perce" :> "SPÖ_votes") @@
    ("ÖVP_votes" :> "OEVP_votes") @@ ("ÖVP_perce" :> "OEVP_perc") @@
    ("FPÖ_votes" :> "FPOE_votes") @@ ("FPÖ_perce" :> "FPOE_perc") @@
    ("GRÜNE_vot" :> "GRUENE_votes") @@ ("GRÜNE_per" :> "GRUENE_perc") @@
    ("KPÖ_votes" :> "KPOE_votes") @@ ("KPÖ_perce" :> "KPOE_perc")

\* the dict of lines 11-22
rename_map ==
    ("SPÖ_votes" :> "SPO_votes") @@ ("SPÖ_perce" :> "SPO_perc") @@
    ("ÖVP_votes" :> "OEVP_votes") @@ ("ÖVP_perce" :> "OEVP_perc") @@
    ("FPÖ_votes" :> "FPOE_votes") @@ ("FPÖ_perce" :> "FPOE_perc") @@
    ("GRÜNE_vot" :> "GRUENE_votes") @@ ("GRÜNE_per" :> "GRUENE_perc") @@
    ("KPÖ_votes" :> "KPOE_votes") @@ ("KPÖ_perce" :> "KPOE_perc")

\* start=1 of enumerate(gdf.columns, start=1)
EnumerateStart == 1

----------------------------------------------------------------------------
(* The inputs: what may be on disk at updated_path *)

GeometryName == "geometry"

\* the names of the scenarios of the specification: a plain list with two
\* table keys, and a key beside a column already carrying its clean name
ScenarioNames ==
    {GeometryName, "SPÖ_votes", "FPÖ_perce", "Other", "ÖVP_votes", "OEVP_votes"}

\* every key and every clean name of the table, the geometry column, an
\* unrelated name, and names that are near a key without being one: a key in
\* lower case, a key cut short, a key with a character in front
AllNames ==
    {"SPÖ_votes", "SPÖ_perce", "ÖVP_votes", "ÖVP_perce", "FPÖ_votes",
     "FPÖ_perce", "GRÜNE_vot", "GRÜNE_per", "KPÖ_votes", "KPÖ_perce",
     "SPO_votes", "SPO_perc", "OEVP_votes", "OEVP_perc", "FPOE_votes",
     "FPOE_perc", "GRUENE_votes", "GRUENE_perc", "KPOE_votes", "KPOE_perc",
     GeometryName, "Other", "spö_votes", "SPÖ_vote", "XSPÖ_votes"}

IsDistinct(s) == \A a, b \in DOMAIN s : a # b => s[a] # s[b]

\* the column lists of length at most n over the names S that a file can hold:
\* distinct names, one of them the geometry column
ColumnLists(S, n) ==
    {s \in UNION {[1..k -> S] : k \in 1..n} :
        /\ IsDistinct(s)
        /\ \E a \in DOMAIN s : s[a] = GeometryName}

InputColumns ==
    ColumnLists(ScenarioNames, MaxCols) \cup ColumnLists(AllNames, MaxWideCols)

\* the cell of record r under column position c.  The script never looks at a
\* cell, so one value per place, different from every other, stands for any
\* content: a cell that is moved, dropped or overwritten shows.
Cell(r, c) == <<r, c>>

Rows(nrec, ncol) == [r \in 1..nrec |-> [c \in 1..ncol |-> Cell(r, c)]]

NoColumns == << >>

NoRows == << >>

Readable(cols, nrec) ==
    [status |-> "readable", columns |-> cols, rows |-> Rows(nrec, Len(cols))]

InputFiles ==
    {Readable(cols, nrec) : cols \in InputColumns, nrec \in 0..MaxRecs}
    \cup {[status |-> s, columns |-> NoColumns, rows |-> NoRows] :
             s \in {"missing", "unreadable"}}

NoFrame == [columns |-> NoColumns, rows |-> NoRows]

AbsentFile == [status |-> "absent", columns |-> NoColumns, rows |-> NoRows]

----------------------------------------------------------------------------
(* The operations *)

Init ==
    /\ inputFile \in InputFiles
    /\ gdf = NoFrame
    /\ outFile = AbsentFile
    /\ console = << >>
    /\ i = EnumerateStart
    /\ pc = "load"
    /\ steps = << >>

\* gpd.read_file on a readable file: the frame holds the file's columns and
\* records
ReadFile(file) == [columns |-> file.columns, rows |-> file.rows]

\* line 8, the call returns
Load ==
    /\ pc = "load"
    /\ inputFile.status = "readable"
    /\ gdf' = ReadFile(inputFile)
    /\ pc' = "rename"
    /\ steps' = Append(steps, "load")
    /\ UNCHANGED <<inputFile, outFile, console, i>>

\* an except clause around the read that goes on with an empty frame
LoadFailCaught ==
    /\ pc = "load"
    /\ inputFile.status # "readable"
    /\ gdf' = NoFrame
    /\ pc' = "rename"
    /\ steps' = Append(steps, "load")
    /\ UNCHANGED <<inputFile, outFile, console, i>>

\* line 8, the call raises: nothing catches it, the run ends
LoadFail ==
    /\ pc = "load"
    /\ inputFile.status # "readable"
    /\ pc' = "read_failed"
    /\ steps' = Append(steps, "load")
    /\ UNCHANGED <<inputFile, gdf, outFile, console, i>>

\* a rename that leaves a column alone when its clean name is taken
RenameColumnsSkippingTaken(columns) ==
    [c \in 1..Len(columns) |->
        IF /\ columns[c] \in DOMAIN rename_map
           /\ \A d \in 1..Len(columns) : columns[d] # rename_map[columns[c]]
        THEN rename_map[columns[c]]
        ELSE columns[c]]

\* a rename that gathers the renamed columns behind the others
RenameColumnsRegrouped(columns) ==
    LET kept == SelectSeq(columns, LAMBDA n : n \notin DOMAIN rename_map)
        hit == SelectSeq(columns, LAMBDA n : n \in DOMAIN rename_map)
    IN  kept \o [c \in 1..Len(hit) |-> rename_map[hit[c]]]

\* the only names the script has in lower case
CaseFold(name) == IF name = "spö_votes" THEN "SPÖ_votes" ELSE name

\* a lookup that ignores case
RenameColumnIgnoringCase(name) ==
    IF CaseFold(name) \in DOMAIN rename_map
    THEN rename_map[CaseFold(name)]
    ELSE name

\* what rename(columns=rename_map) does to one label: the dict's value for a
\* label that is a key of the dict, the label itself otherwise
RenameColumn(name) ==
    IF name \in DOMAIN rename_map THEN rename_map[name] ELSE name

\* ... and to the column index: each label in its place
RenameColumns(columns) ==
    [c \in 1..Len(columns) |-> RenameColumn(columns[c])]

\* a rename that loses the last record
RenameFrameShort(df) ==
    [columns |-> RenameColumns(df.columns),
     rows |-> SubSeq(df.rows, 1, Len(df.rows) - 1)]

\* gdf.rename(columns=rename_map): a frame with the labels renamed over the
\* same records
RenameFrame(df) ==
    [columns |-> RenameColumns(df.columns), rows |-> df.rows]

\* the result of rename is dropped instead of assigned to gdf
RenameUnassigned ==
    /\ pc = "rename"
    /\ pc' = "write"
    /\ steps' = Append(steps, "rename")
    /\ UNCHANGED <<inputFile, gdf, outFile, console, i>>

\* line 25: rename raises nothing
Rename ==
    /\ pc = "rename"
    /\ gdf' = RenameFrame(gdf)
    /\ pc' = "write"
    /\ steps' = Append(steps, "rename")
    /\ UNCHANGED <<inputFile, outFile, console, i>>

\* line 28, the call returns: the file holds the frame handed to to_file
Write ==
    /\ pc = "write"
    /\ outFile' = [status |-> "complete", columns |-> gdf.columns,
                   rows |-> gdf.rows]
    /\ pc' = "print_saved"
    /\ steps' = Append(steps, "write")
    /\ UNCHANGED <<inputFile, gdf, console, i>>

\* line 28, the call raises: nothing catches it and nothing removes what the
\* call had put on disk by then
WriteFail ==
    /\ pc = "write"
    /\ \E s \in {"absent", "partial"} :
          outFile' = [status |-> s, columns |-> NoColumns, rows |-> NoRows]
    /\ pc' = "write_failed"
    /\ steps' = Append(steps, "write")
    /\ UNCHANGED <<inputFile, gdf, console, i>>

\* print joins its arguments with one space.  The literal of line 30 opens
\* with the glyph U+2705, which a string of this module cannot hold: it is
\* written by its code point.
SavedLine == "U+2705 Cleaned shapefile saved to:" \o " " \o cleaned_path

\* the literal of line 31, its glyph U+1F4CB written by its code point
HeaderLine == "U+1F4CB New columns:"

\* line 30
PrintSaved ==
    /\ pc = "print_saved"
    /\ console' = Append(console, SavedLine)
    /\ pc' = "print_header"
    /\ steps' = Append(steps, "report")
    /\ UNCHANGED <<inputFile, gdf, outFile, i>>

\* line 31; the loop of line 32 starts at start=1
PrintHeader ==
    /\ pc = "print_header"
    /\ console' = Append(console, HeaderLine)
    /\ i' = EnumerateStart
    /\ pc' = "print_columns"
    /\ UNCHANGED <<inputFile, gdf, outFile, steps>>

\* a line numbered from 0
ColumnLineFromZero(k, col) == ToString(k - 1) \o ". " \o col

\* f"{i}. {col}"
ColumnLine(k, col) == ToString(k) \o ". " \o col

\* lines 32-33, one pass of the loop: enumerate pairs the next column with
\* the next index
PrintColumn ==
    /\ pc = "print_columns"
    /\ i - EnumerateStart < Len(gdf.columns)
    /\ console' = Append(console,
                         ColumnLine(i, gdf.columns[i - EnumerateStart + 1]))
    /\ i' = i + 1
    /\ UNCHANGED <<inputFile, gdf, outFile, pc, steps>>

\* line 32, the columns are exhausted: the script ends
Finish ==
    /\ pc = "print_columns"
    /\ i - EnumerateStart >= Len(gdf.columns)
    /\ pc' = "done"
    /\ UNCHANGED <<inputFile, gdf, outFile, console, i, steps>>

Next ==
    \/ Load
    \/ LoadFail
    \/ Rename
    \/ Write
    \/ WriteFail
    \/ PrintSaved
    \/ PrintHeader
    \/ PrintColumn
    \/ Finish

Spec == Init /\ [][Next]_vars

----------------------------------------------------------------------------
(* The properties *)

Loaded == pc \notin {"load", "read_failed"}

AfterRename == Loaded /\ pc # "rename"

\* the rename table as the specification lists it
ExpectedPairs ==
    {<<"SPÖ_votes", "SPO_votes">>, <<"SPÖ_perce", "SPO_perc">>,
     <<"ÖVP_votes", "OEVP_votes">>, <<"ÖVP_perce", "OEVP_perc">>,
     <<"FPÖ_votes", "FPOE_votes">>, <<"FPÖ_perce", "FPOE_perc">>,
     <<"GRÜNE_vot", "GRUENE_votes">>, <<"GRÜNE_per", "GRUENE_perc">>,
     <<"KPÖ_votes", "KPOE_votes">>, <<"KPÖ_perce", "KPOE_perc">>}

\* C1: the table has the ten keys listed, and after the rename step a column
\* whose loaded name is one of them carries, at the same position, the clean
\* name listed for that key.
MappedNamesRenamed ==
    /\ DOMAIN rename_map = {p[1] : p \in ExpectedPairs}
    /\ AfterRename =>
          \A c \in DOMAIN inputFile.columns : \A p \in ExpectedPairs :
              inputFile.columns[c] = p[1] =>
                  c \in DOMAIN gdf.columns /\ gdf.columns[c] = p[2]

MappedNamesRenamedWitness ==
    /\ pc = "done"
    /\ \E c \in DOMAIN inputFile.columns :
          inputFile.columns[c] = "GRÜNE_vot" /\ gdf.columns[c] = "GRUENE_votes"

\* C2: after the rename step a column whose loaded name is not a key of the
\* table (a key in another case, a part of a key, a name holding a key, the
\* geometry column) carries its loaded name at the same position.
UnmappedNamesUnchanged ==
    AfterRename =>
        \A c \in DOMAIN inputFile.columns :
            inputFile.columns[c] \notin DOMAIN rename_map =>
                c \in DOMAIN gdf.columns
                /\ gdf.columns[c] = inputFile.columns[c]

UnmappedNamesUnchangedWitness ==
    /\ pc = "write"
    /\ \E c, d \in DOMAIN inputFile.columns :
          /\ inputFile.columns[c] = "spö_votes" /\ gdf.columns[c] = "spö_votes"
          /\ inputFile.columns[d] = GeometryName /\ gdf.columns[d] = GeometryName

SameData(rows, file) ==
    /\ Len(rows) = Len(file.rows)
    /\ \A r \in DOMAIN file.rows :
          /\ Len(rows[r]) = Len(file.columns)
          /\ \A c \in DOMAIN file.columns : rows[r][c] = file.rows[r][c]

\* C3: from the load to the write the frame has the records of the input
\* file, each with the input's value (geometry or attribute) at every column
\* position, and so has the file written; the number of columns is the
\* input's too.
DataUnchanged ==
    /\ Loaded => SameData(gdf.rows, inputFile)
                 /\ Len(gdf.columns) = Len(inputFile.columns)
    /\ outFile.status = "complete" =>
          /\ SameData(outFile.rows, inputFile)
          /\ Len(outFile.columns) = Len(inputFile.columns)

DataUnchangedWitness ==
    /\ pc = "done"
    /\ outFile.status = "complete"
    /\ Len(inputFile.rows) >= 2
    /\ outFile.columns # inputFile.columns
    /\ outFile.rows = inputFile.rows

\* C4: no clean name of the table is a key of the table, and renaming the
\* renamed frame once more gives the same frame.
RenameIdempotent ==
    /\ \A k \in DOMAIN rename_map : rename_map[k] \notin DOMAIN rename_map
    /\ AfterRename => RenameFrame(gdf) = gdf

RenameIdempotentWitness ==
    /\ pc = "write"
    /\ gdf.columns # inputFile.columns
    /\ RenameColumns(gdf.columns) = gdf.columns

\* C5: after the rename step the frame has as many columns as were loaded,
\* the c-th of them named by the image of the c-th loaded name; the columns
\* geometry, SPÖ_votes, FPÖ_perce, Other come out as geometry, SPO_votes,
\* FPOE_perc, Other.
ColumnOrderPreserved ==
    AfterRename =>
        /\ Len(gdf.columns) = Len(inputFile.columns)
        /\ \A c \in DOMAIN inputFile.columns :
              gdf.columns[c] = RenameColumn(inputFile.columns[c])
        /\ inputFile.columns = <<"geometry", "SPÖ_votes", "FPÖ_perce", "Other">>
              => gdf.columns = <<"geometry", "SPO_votes", "FPOE_perc", "Other">>

ColumnOrderPreservedWitness ==
    /\ pc = "write"
    /\ inputFile.columns = <<"geometry", "SPÖ_votes", "FPÖ_perce", "Other">>
    /\ gdf.columns = <<"geometry", "SPO_votes", "FPOE_perc", "Other">>

\* column positions c and d of the input hold a key and that key's clean name
Collide(c, d) ==
    /\ inputFile.columns[c] \in DOMAIN rename_map
    /\ inputFile.columns[d] = rename_map[inputFile.columns[c]]

\* C6: when the input holds a key of the table beside a column already
\* carrying that key's clean name, the rename step can be taken, and after it
\* no column is gone, both positions carry the clean name, every record keeps
\* all its cells, and the run stands at, or is past, the write.
CollisionPassedThrough ==
    \A c, d \in DOMAIN inputFile.columns :
        Collide(c, d) =>
            /\ pc = "rename" => ENABLED Rename
            /\ AfterRename =>
                  /\ Len(gdf.columns) = Len(inputFile.columns)
                  /\ gdf.columns[c] = inputFile.columns[d]
                  /\ gdf.columns[d] = inputFile.columns[d]
                  /\ SameData(gdf.rows, inputFile)
                  /\ "write" \in {pc} \cup {steps[k] : k \in DOMAIN steps}

CollisionPassedThroughWitness ==
    /\ pc = "write"
    /\ \E c, d \in DOMAIN inputFile.columns :
          /\ inputFile.columns[c] = "ÖVP_votes"
          /\ inputFile.columns[d] = "OEVP_votes"
          /\ gdf.columns[c] = "OEVP_votes"
          /\ gdf.columns[d] = "OEVP_votes"

\* C7: when the input file is missing or unreadable the run is either about
\* to load or has ended in the read failure, after one attempt and with no
\* further step possible; no output file exists and nothing is printed.
ReadFailureStopsRun ==
    inputFile.status # "readable" =>
        /\ pc \in {"load", "read_failed"}
        /\ pc = "read_failed" => steps = <<"load">> /\ ~ENABLED Next
        /\ gdf = NoFrame
        /\ outFile = AbsentFile
        /\ console = << >>

ReadFailureStopsRunWitness ==
    /\ pc = "read_failed"
    /\ inputFile.status = "missing"
    /\ outFile.status = "absent"
    /\ console = << >>

\* the lines "k. name" of the first n columns of the frame
NumberedColumns(n) ==
    [k \in 1..n |-> ToString(k) \o ". " \o gdf.columns[k]]

ConfirmationLine ==
    "U+2705 Cleaned shapefile saved to: " \o cleaned_path

\* C8 as claimed: nothing is printed unless the write succeeded, and the
\* finished run has printed the confirmation line and then one numbered line
\* per column, nothing else.
ConsoleIsConfirmationThenColumns ==
    /\ outFile.status # "complete" => console = << >>
    /\ pc = "done" =>
          console = <<ConfirmationLine>> \o NumberedColumns(Len(gdf.columns))

\* C8 as amended: nothing is printed unless the write succeeded; the output
\* is the confirmation line holding the destination path, then the heading
\* line "New columns:", then one line per column of the renamed frame, in
\* column order, the k-th holding k (from 1) and the k-th column name.
ConsoleOutput ==
    /\ outFile.status # "complete" => console = << >>
    /\ pc = "print_saved" => console = << >>
    /\ pc = "print_header" => console = <<ConfirmationLine>>
    /\ pc = "print_columns" =>
          /\ i \in 1..(Len(gdf.columns) + 1)
          /\ console = <<ConfirmationLine, "U+1F4CB New columns:">>
                           \o NumberedColumns(i - 1)
    /\ pc = "done" =>
          console = <<ConfirmationLine, "U+1F4CB New columns:">>
                        \o NumberedColumns(Len(gdf.columns))

ConsoleOutputWitness ==
    /\ pc = "done"
    /\ Len(console) = 5
    /\ console[3] = "1. geometry"
    /\ console[4] = "2. SPO_votes"
    /\ console[5] = "3. Other"

\* C9: from the load on, the column names of the frame are pairwise distinct.
ColumnNamesDistinct == Loaded => IsDistinct(gdf.columns)

Began(names) == steps = names

\* C10: the steps begun are load, rename, write, report in this order, each
\* once; the rename follows a load that succeeded; the frame written is the
\* renamed one; a failed load and a failed write end the run.
StepOrder ==
    /\ pc = "load" => Began(<< >>)
    /\ pc = "read_failed" => Began(<<"load">>) /\ ~ENABLED Next
    /\ pc = "rename" => Began(<<"load">>) /\ inputFile.status = "readable"
    /\ pc = "write" => Began(<<"load", "rename">>)
    /\ pc = "write_failed" =>
          Began(<<"load", "rename", "write">>) /\ ~ENABLED Next
    /\ pc = "print_saved" => Began(<<"load", "rename", "write">>)
    /\ pc \in {"print_header", "print_columns", "done"} =>
          Began(<<"load", "rename", "write", "report">>)
    /\ pc = "done" => ~ENABLED Next
    /\ pc \in {"load", "read_failed", "rename", "write"} =>
          outFile.status = "absent"
    /\ pc = "write" => gdf.columns = RenameColumns(inputFile.columns)
    /\ outFile.status = "complete" =>
          outFile.columns = RenameColumns(inputFile.columns)

StepOrderWitness ==
    /\ pc = "done"
    /\ Began(<<"load", "rename", "write", "report">>)
    /\ outFile.status = "complete"
    /\ outFile.columns # inputFile.columns

====
